---- MODULE Spec2Model ----
(***************************************************************************)
(* Lobby server of NP_hw3: the session table, the room tables kept by the  *)
(* DB server, the active-launch table, the worker processes and the        *)
(* per-launch monitor threads.  One action per step of a handler: every    *)
(* DB RPC (DBClient.call) and every critical section of LobbyServer.lock   *)
(* is one atomic step; the steps of different threads interleave freely.   *)
(***************************************************************************)
EXTENDS Integers, Sequences, FiniteSets, TLC

\* ------------------------------------------------------------------ bounds
NumConns == 2
NumAccounts == 2
MaxRooms == 2
NumCodes == 2
MaxCapacity == 2
MaxLaunches == 2
NumPorts == 2
MaxTime == 1
MaxInvites == 1
MaxAccepts == 2
MaxRequests == 4
MaxFrames == 2
MaxBody == 2
NumOctets == 2

\* ------------------------------------------------------- program constants
PORT_START == 20000
MAX_FRAME == 4 * 1024 * 1024

Conns == 1..NumConns
Accounts == 1..NumAccounts
RoomIds == 1..MaxRooms
Codes == 1..NumCodes
Capacities == 1..MaxCapacity
Launches == 1..MaxLaunches
Ports == PORT_START..(PORT_START + NumPorts - 1)
InviteIds == 1..MaxInvites

\* sessions[conn]: the key is missing, the value is None, or a PlayerSession
Absent == -1
NoSession == 0
\* threading.Lock: free, or the thread that holds it
Free == 0
MonTid(l) == NumConns + l

NoRoom == [status |-> "none", owner |-> 0, cap |-> 0, code |-> 0]
NoInfo == [port |-> 0, token |-> 0, roomId |-> 0]
NoEntry == [process |-> 0, runtime |-> <<0, 0>>, info |-> NoInfo]
NoDir == <<0, 0>>
NoResp == [conn |-> 0, kind |-> "none", rid |-> 0, info |-> NoInfo]
OpenStatus == {"waiting", "launching", "playing"}

\* the local variables of a connection's handler thread
L0 == [me |-> 0, acct |-> 0, rid |-> 0, code |-> 0, cap |-> 0, byCode |-> FALSE,
       room |-> NoRoom, ctx |-> "none", todo |-> <<>>, act |-> NoEntry,
       minp |-> 0, rdir |-> NoDir, port |-> 0, info |-> NoInfo, inv |-> 0]

VARIABLES
    sessions,     \* LobbyServer.sessions
    lock,         \* LobbyServer.lock
    pc,           \* position of each connection thread
    loc,          \* locals of each connection thread
    resp,         \* the response the last step sent, and its connection
    cause,        \* why recv_json last raised on the connection
    rooms,        \* table rooms of the DB server
    nextRoomId,   \* AUTOINCREMENT of rooms.id
    members,      \* table room_members
    invites,      \* table invites
    nextInviteId, \* AUTOINCREMENT of invites.id
    active,       \* LobbyServer.active_rooms
    proc,         \* worker processes, by launch
    bound,        \* launches whose worker listens on its port
    dirs,         \* runtime directories that exist
    mon,          \* monitor threads, by launch
    nextLaunch,   \* launches started so far + 1
    nreq,         \* requests received so far
    nacc,         \* connections accepted so far
    now,          \* int(time.time())
    wire,         \* bytes sent on a connection and not received yet
    tx,           \* the thread in send_frame on that connection
    rx            \* the thread in recv_frame at its other end

vars == <<sessions, lock, pc, loc, resp, cause, rooms, nextRoomId, members,
          invites, nextInviteId, active, proc, bound, dirs, mon, nextLaunch, nreq,
          nacc, now, wire, tx, rx>>
dbVars == <<rooms, nextRoomId, members, invites, nextInviteId>>
launchVars == <<active, proc, bound, dirs, mon, nextLaunch>>
frameVars == <<wire, tx, rx>>

NoProc == [state |-> "none", port |-> 0, token |-> 0]
NoMon == [pc |-> "none", rid |-> 0, entry |-> NoEntry, mem |-> {}, act |-> NoEntry]
DoneMon == [NoMon EXCEPT !.pc = "done"]
\* send_frame and recv_frame before their first call
NoTx == [pc |-> "idle", buf |-> <<>>, body |-> <<>>, sent |-> <<>>, raised |-> FALSE,
         partial |-> FALSE]
NoRx == [pc |-> "idle", need |-> 0, data |-> <<>>, header |-> <<>>, consumed |-> 0,
         got |-> <<>>, partial |-> FALSE]

Init ==
    /\ sessions = [c \in Conns |-> Absent]
    /\ lock = Free
    /\ pc = [c \in Conns |-> "closed"]
    /\ loc = [c \in Conns |-> L0]
    /\ resp = NoResp
    /\ cause = [c \in Conns |-> "none"]
    /\ rooms = [r \in RoomIds |-> NoRoom]
    /\ nextRoomId = 1
    /\ members = {}
    /\ invites = {}
    /\ nextInviteId = 1
    /\ active = [r \in RoomIds |-> NoEntry]
    /\ proc = [l \in Launches |-> NoProc]
    /\ bound = {}
    /\ dirs = {}
    /\ mon = [l \in Launches |-> NoMon]
    /\ nextLaunch = 1
    /\ nreq = 0
    /\ nacc = 0
    /\ now = 0
    /\ wire = <<>>
    /\ tx = NoTx
    /\ rx = NoRx

\* ----------------------------------------------------------- DB queries
\* Room.read
RoomRead(rid) == IF rid \in RoomIds THEN rooms[rid] ELSE NoRoom
\* Room.read_by_code: ids of the rows holding the code
RoomsByCode(code) == {r \in RoomIds : rooms[r].status # "none" /\ rooms[r].code = code}
\* Room.list_by_owner
ListByOwner(p) == {r \in RoomIds : rooms[r].owner = p /\ rooms[r].status \in OpenStatus}
\* RoomMember.list
MemberList(rid) == {p \in Accounts : <<rid, p>> \in members}
\* RoomMember.find_player_room
FindPlayerRoom(p) == {r \in RoomIds : <<r, p>> \in members /\ rooms[r].status \in OpenStatus}
\* get_online_player_ids
OnlineIds == {sessions[c] : c \in {d \in Conns : sessions[d] > 0}}

RECURSIVE SetToSeq(_)
SetToSeq(S) == IF S = {} THEN <<>>
               ELSE LET m == CHOOSE x \in S : \A y \in S : x <= y
                    IN <<m>> \o SetToSeq(S \ {m})

\* ------------------------------------------------------------- helpers
Goto(c, p, l) == /\ pc' = [pc EXCEPT ![c] = p]
                 /\ loc' = [loc EXCEPT ![c] = l]
                 /\ resp' = NoResp
\* send_json of the response, then back to recv_json
Reply(c, kind, rid, info) ==
    /\ pc' = [pc EXCEPT ![c] = "idle"]
    /\ loc' = [loc EXCEPT ![c] = L0]
    /\ resp' = [conn |-> c, kind |-> kind, rid |-> rid, info |-> info]
\* an exception leaves the handler: except Exception, then finally
Raise(c) ==
    /\ pc' = [pc EXCEPT ![c] = "finally"]
    /\ loc' = [loc EXCEPT ![c] = L0]
    /\ resp' = NoResp

\* ------------------------------------------------- connection life cycle
handle_client_accept(c) ==
    /\ pc[c] = "closed"
    /\ lock = Free
    /\ sessions' = [sessions EXCEPT ![c] = NoSession]
    /\ pc' = [pc EXCEPT ![c] = "idle"]
    /\ nacc < MaxAccepts
    /\ nacc' = nacc + 1
    /\ resp' = NoResp
    /\ UNCHANGED <<lock, loc, cause, nreq, dbVars, launchVars, now, frameVars>>

\* struct.unpack("!I", header): the 4 header bytes, most significant first,
\* as the two 16-bit halves of the declared length
HeaderHigh(h) == h[1] * 256 + h[2]
HeaderLow(h) == h[3] * 256 + h[4]
\* the check of the upper limit alone
BadLength_m(h) ==
    \/ HeaderHigh(h) > MAX_FRAME \div 65536
    \/ HeaderHigh(h) = MAX_FRAME \div 65536 /\ HeaderLow(h) > MAX_FRAME % 65536

\* recv_frame: length <= 0 or length > MAX_FRAME
BadLength(h) ==
    \/ HeaderHigh(h) = 0 /\ HeaderLow(h) = 0
    \/ HeaderHigh(h) > MAX_FRAME \div 65536
    \/ HeaderHigh(h) = MAX_FRAME \div 65536 /\ HeaderLow(h) > MAX_FRAME % 65536
\* headers declaring 0, 1, MAX_FRAME, MAX_FRAME + 1 and 0xFFFFFFFF
Headers == {<<0, 0, 0, 0>>, <<0, 0, 0, 1>>, <<0, 64, 0, 0>>, <<0, 64, 0, 1>>,
            <<255, 255, 255, 255>>}

\* recv_json raises: the peer closed (recv_all), or the header is rejected
recv_json_raises(c) ==
    /\ pc[c] = "idle"
    /\ \/ cause' = [cause EXCEPT ![c] = "eof"]
       \/ \E h \in Headers :
            /\ BadLength(h)
            /\ cause' = [cause EXCEPT ![c] = "frame"]
    /\ pc' = [pc EXCEPT ![c] = "finally"]
    /\ resp' = NoResp
    /\ UNCHANGED <<nreq, nacc, sessions, lock, loc, dbVars, launchVars, now, frameVars>>

\* list_by_owner, the first RPC of cleanup_user
CleanupUserStart(c, me, ctx) ==
    LET todo == SetToSeq(ListByOwner(me))
    IN Goto(c, IF todo = <<>> THEN "cu_members" ELSE "cr_lock",
            [L0 EXCEPT !.me = me, !.ctx = ctx, !.todo = todo,
                       !.rid = IF todo = <<>> THEN 0 ELSE Head(todo)])

\* the finally block that cleans up whenever the connection had an entry,
\* a session of None included
handle_client_finally_m(c) ==
    /\ pc[c] = "finally"
    /\ lock = Free
    /\ sessions' = [sessions EXCEPT ![c] = Absent]
    /\ lock' = c
    /\ Goto(c, "cu_list", [L0 EXCEPT !.me = sessions[c], !.ctx = "finally"])
    /\ UNCHANGED <<cause, nreq, nacc, dbVars, launchVars, now, frameVars>>

\* finally: with self.lock: session = self.sessions.pop(conn, None)
handle_client_finally(c) ==
    /\ pc[c] = "finally"
    /\ lock = Free
    /\ sessions' = [sessions EXCEPT ![c] = Absent]
    /\ IF sessions[c] > 0
         THEN /\ lock' = c
              /\ Goto(c, "cu_list", [L0 EXCEPT !.me = sessions[c], !.ctx = "finally"])
              /\ UNCHANGED cause
         ELSE /\ lock' = Free
              /\ Goto(c, "closed", L0)
              /\ cause' = [cause EXCEPT ![c] = "none"]
    /\ UNCHANGED <<nreq, nacc, dbVars, launchVars, now, frameVars>>

cleanup_user_list(c) ==
    /\ pc[c] = "cu_list"
    /\ CleanupUserStart(c, loc[c].me, loc[c].ctx)
    /\ UNCHANGED <<nreq, nacc, sessions, lock, cause, dbVars, launchVars, now, frameVars>>

\* ------------------------------------------------------------ cleanup_room
\* with self.lock: active = self.active_rooms.pop(room_id, None)
cleanup_room_pop(c) ==
    /\ pc[c] = "cr_lock"
    /\ lock = Free
    /\ active' = [active EXCEPT ![loc[c].rid] = NoEntry]
    /\ Goto(c, IF active[loc[c].rid] # NoEntry THEN "cr_kill" ELSE "cr_invites",
            [loc[c] EXCEPT !.act = active[loc[c].rid]])
    /\ UNCHANGED <<nreq, nacc, sessions, lock, cause, dbVars, proc, bound, dirs, mon, nextLaunch, now, frameVars>>

\* process.terminate(); process.wait(timeout=5); shutil.rmtree(runtime)
cleanup_room_kill(c) ==
    /\ pc[c] = "cr_kill"
    /\ proc' = [proc EXCEPT ![loc[c].act.process].state = "exited"]
    /\ bound' = bound \ {loc[c].act.process}
    /\ dirs' = dirs \ {loc[c].act.runtime}
    /\ Goto(c, "cr_invites", [loc[c] EXCEPT !.act = NoEntry])
    /\ UNCHANGED <<nreq, nacc, sessions, lock, cause, dbVars, active, mon, nextLaunch, now, frameVars>>

\* Invite.delete_by_room
cleanup_room_invites(c) ==
    /\ pc[c] = "cr_invites"
    /\ invites' = {i \in invites : i.room # loc[c].rid}
    /\ Goto(c, "cr_members", loc[c])
    /\ UNCHANGED <<nreq, nacc, sessions, lock, cause, rooms, nextRoomId, members, nextInviteId, launchVars, now, frameVars>>

\* RoomMember.clear_room
cleanup_room_members(c) ==
    /\ pc[c] = "cr_members"
    /\ members' = {m \in members : m[1] # loc[c].rid}
    /\ Goto(c, "cr_delete", loc[c])
    /\ UNCHANGED <<nreq, nacc, sessions, lock, cause, rooms, nextRoomId, invites, nextInviteId, launchVars, now, frameVars>>

\* Room.delete; when no row was deleted, Room.update_status closed finds no row either
RoomDelete(rid) == [rooms EXCEPT ![rid] = NoRoom]

cleanup_room_delete(c) ==
    /\ pc[c] = "cr_delete"
    /\ rooms' = RoomDelete(loc[c].rid)
    /\ IF loc[c].ctx = "leave"
         THEN Reply(c, "ok", loc[c].rid, NoInfo)
         ELSE LET rest == Tail(loc[c].todo)
              IN Goto(c, IF rest = <<>> THEN "cu_members" ELSE "cr_lock",
                      [loc[c] EXCEPT !.todo = rest,
                                     !.rid = IF rest = <<>> THEN 0 ELSE Head(rest)])
    /\ UNCHANGED <<nreq, nacc, sessions, lock, cause, nextRoomId, members, invites, nextInviteId, launchVars, now, frameVars>>

\* ------------------------------------------------------------ cleanup_user
\* RoomMember.delete_by_player
cleanup_user_members(c) ==
    /\ pc[c] = "cu_members"
    /\ members' = {m \in members : m[2] # loc[c].me}
    /\ Goto(c, "cu_invites", loc[c])
    /\ UNCHANGED <<nreq, nacc, sessions, lock, cause, rooms, nextRoomId, invites, nextInviteId, launchVars, now, frameVars>>

\* Invite.delete_by_player; then the caller goes on: handle_logout to its
\* critical section, the finally block to the end of its own
cleanup_user_invites(c) ==
    /\ pc[c] = "cu_invites"
    /\ invites' = {i \in invites : i.from # loc[c].me /\ i.to # loc[c].me}
    /\ IF loc[c].ctx = "finally"
         THEN /\ lock' = Free
              /\ Goto(c, "closed", L0)
              /\ cause' = [cause EXCEPT ![c] = "none"]
         ELSE /\ lock' = lock
              /\ Goto(c, "lo_clear", loc[c])
              /\ UNCHANGED cause
    /\ UNCHANGED <<nreq, nacc, sessions, rooms, nextRoomId, members, nextInviteId, launchVars, now, frameVars>>

\* ----------------------------------------------------------- LOGIN, LOGOUT
\* PlayerAccount.read_by_username and the comparison of the hash
handle_login(c, a, valid) ==
    /\ pc[c] = "idle"
    /\ IF valid
         THEN Goto(c, "login_check", [L0 EXCEPT !.acct = a])
         ELSE Reply(c, "invalid credentials", 0, NoInfo)
    /\ nreq < MaxRequests
    /\ nreq' = nreq + 1
    /\ UNCHANGED <<nacc, sessions, lock, cause, dbVars, launchVars, now, frameVars>>

\* the scan finds no session of the account
LiveElsewhere_m(a) == FALSE

\* the scan of self.sessions.items() for a session of the account
LiveElsewhere(a) == \E d \in Conns : sessions[d] = a

\* a duplicate LOGIN that ends the connection instead of answering it
handle_login_check_m(c) ==
    /\ pc[c] = "login_check"
    /\ lock = Free
    /\ IF LiveElsewhere(loc[c].acct)
         THEN Raise(c)
         ELSE Goto(c, "login_commit", loc[c])
    /\ UNCHANGED <<nreq, nacc, sessions, lock, cause, dbVars, launchVars, now, frameVars>>

\* with self.lock: the scan; the duplicate is answered inside the lock
handle_login_check(c) ==
    /\ pc[c] = "login_check"
    /\ lock = Free
    /\ IF LiveElsewhere(loc[c].acct)
         THEN Reply(c, "already logged in", 0, NoInfo)
         ELSE Goto(c, "login_commit", loc[c])
    /\ UNCHANGED <<nreq, nacc, sessions, lock, cause, dbVars, launchVars, now, frameVars>>

\* set_last_login; with self.lock: self.sessions[conn] = session
handle_login_commit(c) ==
    /\ pc[c] = "login_commit"
    /\ lock = Free
    /\ sessions' = [sessions EXCEPT ![c] = loc[c].acct]
    /\ Reply(c, "ok", 0, NoInfo)
    /\ UNCHANGED <<nreq, nacc, lock, cause, dbVars, launchVars, now, frameVars>>

\* any other request on a connection whose session is None
not_authenticated(c) ==
    /\ pc[c] = "idle"
    /\ sessions[c] = NoSession
    /\ Reply(c, "not authenticated", 0, NoInfo)
    /\ nreq < MaxRequests
    /\ nreq' = nreq + 1
    /\ UNCHANGED <<nacc, sessions, lock, cause, dbVars, launchVars, now, frameVars>>

handle_logout(c) ==
    /\ pc[c] = "idle"
    /\ sessions[c] > 0
    /\ CleanupUserStart(c, sessions[c], "logout")
    /\ nreq < MaxRequests
    /\ nreq' = nreq + 1
    /\ UNCHANGED <<nacc, sessions, lock, cause, dbVars, launchVars, now, frameVars>>

\* with self.lock: self.sessions[conn] = None
handle_logout_clear(c) ==
    /\ pc[c] = "lo_clear"
    /\ lock = Free
    /\ sessions' = [sessions EXCEPT ![c] = NoSession]
    /\ Reply(c, "ok", 0, NoInfo)
    /\ UNCHANGED <<nreq, nacc, lock, cause, dbVars, launchVars, now, frameVars>>

\* ------------------------------------------------------------ CREATE_ROOM
\* RoomMember.find_player_room of the requester
\* CREATE_ROOM dispatched without the check of the session
handle_create_room_m(c, cap) ==
    /\ pc[c] = "idle"
    /\ nextRoomId <= MaxRooms
    /\ IF FindPlayerRoom(sessions[c]) # {}
         THEN Reply(c, "already in a room", 0, NoInfo)
         ELSE Goto(c, "create_code", [L0 EXCEPT !.me = sessions[c], !.cap = cap])
    /\ UNCHANGED <<nreq, nacc, sessions, lock, cause, dbVars, launchVars, now, frameVars>>

handle_create_room(c, cap) ==
    /\ pc[c] = "idle"
    /\ sessions[c] > 0
    /\ nextRoomId <= MaxRooms
    /\ IF FindPlayerRoom(sessions[c]) # {}
         THEN Reply(c, "already in a room", 0, NoInfo)
         ELSE Goto(c, "create_code", [L0 EXCEPT !.me = sessions[c], !.cap = cap])
    /\ UNCHANGED <<nreq, nacc, sessions, lock, cause, dbVars, launchVars, now, frameVars>>

\* generate_room_code: a random code that Room.read_by_code does not find
generate_room_code(c) ==
    /\ pc[c] = "create_code"
    /\ \E code \in Codes :
         /\ RoomsByCode(code) = {}
         /\ Goto(c, "create_insert", [loc[c] EXCEPT !.code = code])
    /\ UNCHANGED <<nreq, nacc, sessions, lock, cause, dbVars, launchVars, now, frameVars>>

\* Room.create into a table whose column code is not UNIQUE
handle_create_room_insert_m(c) ==
    /\ pc[c] = "create_insert"
    /\ rooms' = [rooms EXCEPT ![nextRoomId] =
                    [status |-> "waiting", owner |-> loc[c].me,
                     cap |-> loc[c].cap, code |-> loc[c].code]]
    /\ nextRoomId' = nextRoomId + 1
    /\ Goto(c, "create_add", [loc[c] EXCEPT !.rid = nextRoomId])
    /\ UNCHANGED <<nreq, nacc, sessions, lock, cause, members, invites, nextInviteId, launchVars, now, frameVars>>

\* Room.create: INSERT INTO rooms; the column code is UNIQUE
handle_create_room_insert(c) ==
    /\ pc[c] = "create_insert"
    /\ IF RoomsByCode(loc[c].code) # {}
         THEN /\ Raise(c)
              /\ UNCHANGED <<rooms, nextRoomId>>
         ELSE /\ rooms' = [rooms EXCEPT ![nextRoomId] =
                             [status |-> "waiting", owner |-> loc[c].me,
                              cap |-> loc[c].cap, code |-> loc[c].code]]
              /\ nextRoomId' = nextRoomId + 1
              /\ Goto(c, "create_add", [loc[c] EXCEPT !.rid = nextRoomId])
    /\ UNCHANGED <<nreq, nacc, sessions, lock, cause, members, invites, nextInviteId, launchVars, now, frameVars>>

\* RoomMember.add: INSERT OR IGNORE
MemberAdd(rid, p) == members \cup {<<rid, p>>}

\* RoomMember.add of the owner, then the response
handle_create_room_add(c) ==
    /\ pc[c] = "create_add"
    /\ members' = MemberAdd(loc[c].rid, loc[c].me)
    /\ Reply(c, "ok", loc[c].rid, NoInfo)
    /\ UNCHANGED <<nreq, nacc, sessions, lock, cause, rooms, nextRoomId, invites, nextInviteId, launchVars, now, frameVars>>

\* -------------------------------------------------------------- JOIN_ROOM
\* RoomMember.find_player_room; a member of the target room (named by
\* roomId) is answered ok, a member of any room otherwise is refused
\* the request names the room by roomCode (byCode) or by roomId
handle_join_room(c, byCode, rid, code) ==
    /\ pc[c] = "idle"
    /\ sessions[c] > 0
    /\ LET found == FindPlayerRoom(sessions[c])
       IN IF found # {}
            THEN \E existing \in found :
                   IF ~byCode /\ existing = rid
                     THEN Reply(c, "already in this room", rid, NoInfo)
                     ELSE Reply(c, "already in a room", 0, NoInfo)
            ELSE Goto(c, "join_read",
                      [L0 EXCEPT !.me = sessions[c], !.byCode = byCode,
                                 !.rid = IF byCode THEN 0 ELSE rid,
                                 !.code = IF byCode THEN code ELSE 0])
    /\ nreq < MaxRequests
    /\ nreq' = nreq + 1
    /\ UNCHANGED <<nacc, sessions, lock, cause, dbVars, launchVars, now, frameVars>>

\* Room.read or Room.read_by_code, and the check of the status
handle_join_room_read(c) ==
    /\ pc[c] = "join_read"
    /\ LET found == IF loc[c].byCode THEN RoomsByCode(loc[c].code)
                    ELSE {r \in {loc[c].rid} : rooms[r].status # "none"}
       IN IF found = {}
            THEN Reply(c, "room not found", 0, NoInfo)
            ELSE \E r \in found :
                   IF rooms[r].status # "waiting"
                     THEN Reply(c, "cannot join room", r, NoInfo)
                     ELSE Goto(c, "join_list", [loc[c] EXCEPT !.rid = r, !.room = rooms[r]])
    /\ UNCHANGED <<nreq, nacc, sessions, lock, cause, dbVars, launchVars, now, frameVars>>

\* the room counts as full only above its capacity
RoomFull_m(n, cap) == n > cap

\* len(members) >= room["capacity"]
RoomFull(n, cap) == n >= cap

\* the refusal of a full room that records the membership all the same
handle_join_room_list_m(c) ==
    /\ pc[c] = "join_list"
    /\ IF RoomFull(Cardinality(MemberList(loc[c].rid)), loc[c].room.cap)
         THEN /\ Reply(c, "room full", loc[c].rid, NoInfo)
              /\ members' = MemberAdd(loc[c].rid, loc[c].me)
         ELSE /\ Goto(c, "join_add", loc[c])
              /\ UNCHANGED members
    /\ UNCHANGED <<nreq, nacc, sessions, lock, cause, rooms, nextRoomId, invites,
                   nextInviteId, launchVars, now, frameVars>>

\* RoomMember.list and the check of the capacity
handle_join_room_list(c) ==
    /\ pc[c] = "join_list"
    /\ IF RoomFull(Cardinality(MemberList(loc[c].rid)), loc[c].room.cap)
         THEN Reply(c, "room full", loc[c].rid, NoInfo)
         ELSE Goto(c, "join_add", loc[c])
    /\ UNCHANGED <<nreq, nacc, sessions, lock, cause, dbVars, launchVars, now, frameVars>>

\* RoomMember.add, then the response
handle_join_room_add(c) ==
    /\ pc[c] = "join_add"
    /\ members' = MemberAdd(loc[c].rid, loc[c].me)
    /\ Reply(c, "ok", loc[c].rid, NoInfo)
    /\ UNCHANGED <<nreq, nacc, sessions, lock, cause, rooms, nextRoomId, invites, nextInviteId, launchVars, now, frameVars>>

\* ------------------------------------------------------------- LEAVE_ROOM
\* Room.read
handle_leave_room(c) ==
    /\ pc[c] = "idle"
    /\ sessions[c] > 0
    /\ \E rid \in RoomIds :
         Goto(c, "leave_remove", [L0 EXCEPT !.me = sessions[c], !.rid = rid,
                                            !.room = RoomRead(rid)])
    /\ nreq < MaxRequests
    /\ nreq' = nreq + 1
    /\ UNCHANGED <<nacc, sessions, lock, cause, dbVars, launchVars, now, frameVars>>

\* RoomMember.remove; the owner's leave goes on to cleanup_room
handle_leave_room_remove(c) ==
    /\ pc[c] = "leave_remove"
    /\ members' = members \ {<<loc[c].rid, loc[c].me>>}
    /\ IF loc[c].room # NoRoom /\ loc[c].room.owner = loc[c].me
         THEN Goto(c, "cr_lock", [loc[c] EXCEPT !.ctx = "leave"])
         ELSE Reply(c, "ok", loc[c].rid, NoInfo)
    /\ UNCHANGED <<nreq, nacc, sessions, lock, cause, rooms, nextRoomId, invites, nextInviteId, launchVars, now, frameVars>>

\* ----------------------------------------------------------------- INVITE
NoInvite == [id |-> 0, room |-> 0, from |-> 0, to |-> 0, status |-> "none"]
\* Invite.read
InviteRead(id) == IF \E i \in invites : i.id = id
                    THEN CHOOSE i \in invites : i.id = id
                    ELSE NoInvite

\* PlayerAccount.read of the target, Room.read and the checks of the host
handle_invite(c) ==
    /\ pc[c] = "idle"
    /\ sessions[c] > 0
    /\ nextInviteId <= MaxInvites
    /\ \E rid \in RoomIds, to \in Accounts :
         IF to = sessions[c]
           THEN Reply(c, "cannot invite yourself", 0, NoInfo)
           ELSE IF rooms[rid] = NoRoom
             THEN Reply(c, "room not found", 0, NoInfo)
             ELSE IF rooms[rid].owner # sessions[c]
               THEN Reply(c, "only host can invite", rid, NoInfo)
               ELSE IF rooms[rid].status # "waiting"
                 THEN Reply(c, "room is not waiting for players", rid, NoInfo)
                 ELSE Goto(c, "inv_list", [L0 EXCEPT !.me = sessions[c], !.rid = rid,
                                                     !.acct = to, !.room = rooms[rid]])
    /\ nreq < MaxRequests
    /\ nreq' = nreq + 1
    /\ UNCHANGED <<nacc, sessions, lock, cause, dbVars, launchVars, now, frameVars>>

\* RoomMember.list: the room is full, or the target is in it already
handle_invite_list(c) ==
    /\ pc[c] = "inv_list"
    /\ IF RoomFull(Cardinality(MemberList(loc[c].rid)), loc[c].room.cap)
         THEN Reply(c, "room is full", loc[c].rid, NoInfo)
         ELSE IF loc[c].acct \in MemberList(loc[c].rid)
           THEN Reply(c, "player is already in this room", loc[c].rid, NoInfo)
           ELSE Goto(c, "inv_create", loc[c])
    /\ UNCHANGED <<nreq, nacc, sessions, lock, cause, dbVars, launchVars, now, frameVars>>

\* Invite.create
handle_invite_create(c) ==
    /\ pc[c] = "inv_create"
    /\ nextInviteId <= MaxInvites
    /\ invites' = invites \cup {[id |-> nextInviteId, room |-> loc[c].rid,
                                 from |-> loc[c].me, to |-> loc[c].acct,
                                 status |-> "pending"]}
    /\ nextInviteId' = nextInviteId + 1
    /\ Reply(c, "ok", loc[c].rid, NoInfo)
    /\ UNCHANGED <<nreq, nacc, sessions, lock, cause, rooms, nextRoomId, members, launchVars, now, frameVars>>

\* ---------------------------------------------------------- ACCEPT_INVITE
\* RoomMember.find_player_room of the requester
handle_accept_invite(c) ==
    /\ pc[c] = "idle"
    /\ sessions[c] > 0
    /\ \E id \in InviteIds :
         IF FindPlayerRoom(sessions[c]) # {}
           THEN Reply(c, "already in a room", 0, NoInfo)
           ELSE Goto(c, "acc_read", [L0 EXCEPT !.me = sessions[c], !.inv = id])
    /\ nreq < MaxRequests
    /\ nreq' = nreq + 1
    /\ UNCHANGED <<nacc, sessions, lock, cause, dbVars, launchVars, now, frameVars>>

\* Invite.read: the invite is the requester's and is pending
handle_accept_invite_read(c) ==
    /\ pc[c] = "acc_read"
    /\ LET invite == InviteRead(loc[c].inv)
       IN IF invite = NoInvite \/ invite.to # loc[c].me \/ invite.status # "pending"
            THEN Reply(c, "invalid invite", 0, NoInfo)
            ELSE Goto(c, "acc_room", [loc[c] EXCEPT !.rid = invite.room])
    /\ UNCHANGED <<nreq, nacc, sessions, lock, cause, dbVars, launchVars, now, frameVars>>

\* Room.read and the check of the status
handle_accept_invite_room(c) ==
    /\ pc[c] = "acc_room"
    /\ IF rooms[loc[c].rid] = NoRoom
         THEN Goto(c, "acc_purge", loc[c])
         ELSE IF rooms[loc[c].rid].status # "waiting"
           THEN Reply(c, "room not waiting", loc[c].rid, NoInfo)
           ELSE Goto(c, "acc_list", [loc[c] EXCEPT !.room = rooms[loc[c].rid]])
    /\ UNCHANGED <<nreq, nacc, sessions, lock, cause, dbVars, launchVars, now, frameVars>>

\* Invite.delete_by_room of a room that is gone
handle_accept_invite_purge(c) ==
    /\ pc[c] = "acc_purge"
    /\ invites' = {i \in invites : i.room # loc[c].rid}
    /\ Reply(c, "room not found", 0, NoInfo)
    /\ UNCHANGED <<nreq, nacc, sessions, lock, cause, rooms, nextRoomId, members, nextInviteId, launchVars, now, frameVars>>

\* RoomMember.list and the check of the capacity
handle_accept_invite_list(c) ==
    /\ pc[c] = "acc_list"
    /\ IF RoomFull(Cardinality(MemberList(loc[c].rid)), loc[c].room.cap)
         THEN Reply(c, "room full", loc[c].rid, NoInfo)
         ELSE Goto(c, "acc_add", loc[c])
    /\ UNCHANGED <<nreq, nacc, sessions, lock, cause, dbVars, launchVars, now, frameVars>>

\* RoomMember.add
handle_accept_invite_add(c) ==
    /\ pc[c] = "acc_add"
    /\ members' = MemberAdd(loc[c].rid, loc[c].me)
    /\ Goto(c, "acc_status", loc[c])
    /\ UNCHANGED <<nreq, nacc, sessions, lock, cause, rooms, nextRoomId, invites, nextInviteId, launchVars, now, frameVars>>

\* Invite.update_status accepted, then the response
handle_accept_invite_status(c) ==
    /\ pc[c] = "acc_status"
    /\ invites' = {IF i.id = loc[c].inv THEN [i EXCEPT !.status = "accepted"] ELSE i
                   : i \in invites}
    /\ Reply(c, "ok", loc[c].rid, NoInfo)
    /\ UNCHANGED <<nreq, nacc, sessions, lock, cause, rooms, nextRoomId, members, nextInviteId, launchVars, now, frameVars>>

\* ------------------------------------------------------------- START_GAME
\* START_GAME handlers that have not spawned their worker yet
Starting == {c \in Conns : pc[c] \in {"start_list", "start_runtime", "start_port"}}

\* game.get("min_players", 1) of the one published game
min_players == 1

\* Room.read, the checks of the host and the status, GameVersion.read
handle_start_game(c) ==
    /\ pc[c] = "idle"
    /\ sessions[c] > 0
    /\ nextLaunch + Cardinality(Starting) <= MaxLaunches
    /\ \E rid \in RoomIds :
         IF rooms[rid] = NoRoom
           THEN Reply(c, "room not found", 0, NoInfo)
           ELSE IF rooms[rid].owner # sessions[c]
             THEN Reply(c, "only host can start", rid, NoInfo)
             ELSE IF rooms[rid].status # "waiting"
               THEN Reply(c, "cannot start game", rid, NoInfo)
               ELSE Goto(c, "start_list", [L0 EXCEPT !.me = sessions[c], !.rid = rid,
                                                     !.room = rooms[rid]])
    /\ UNCHANGED <<nreq, nacc, sessions, lock, cause, dbVars, launchVars, now, frameVars>>

\* RoomMember.list, Game.read and the check of the minimum player count;
\* mp is the min_players of the game's row as Game.read returns it
handle_start_game_list(c, mp) ==
    /\ pc[c] = "start_list"
    /\ IF Cardinality(MemberList(loc[c].rid)) < mp
         THEN Reply(c, "need at least min_players", loc[c].rid, NoInfo)
         ELSE Goto(c, "start_runtime", [loc[c] EXCEPT !.minp = mp])
    /\ UNCHANGED <<nreq, nacc, sessions, lock, cause, dbVars, launchVars, now, frameVars>>

\* the directory room_<room id>_<version id>_<int(time.time())>
RuntimeDir(rid, t) == <<rid, t>>

\* prepare_runtime: the package is missing; or the directory is made afresh
\* and zf.extractall raises; or the package is extracted into it
prepare_runtime(c) ==
    /\ pc[c] = "start_runtime"
    /\ \/ /\ Reply(c, "package missing", loc[c].rid, NoInfo)
          /\ UNCHANGED dirs
       \/ /\ dirs' = dirs \cup {RuntimeDir(loc[c].rid, now)}
          /\ Reply(c, "extract failed", loc[c].rid, NoInfo)
       \/ /\ dirs' = dirs \cup {RuntimeDir(loc[c].rid, now)}
          /\ Goto(c, "start_port", [loc[c] EXCEPT !.rdir = RuntimeDir(loc[c].rid, now)])
    /\ UNCHANGED <<nreq, nacc, sessions, lock, cause, dbVars, active, proc, bound, mon, nextLaunch, now, frameVars>>

\* the ports a worker process listens on
PortsInUse == {proc[l].port : l \in bound}
\* find_free_port: the first port of the range whose probe bind succeeds
FreePorts == Ports \ PortsInUse
FirstFreePort == CHOOSE p \in FreePorts : \A q \in FreePorts : p <= q

\* f"rt{int(time.time())}{room['id']}": the digits of the second, then of the id
RECURSIVE Pow10Above(_, _)
Pow10Above(n, p) == IF n < p THEN p ELSE Pow10Above(n, p * 10)
RoomToken(t, rid) == t * Pow10Above(rid, 10) + rid

\* launch_game_instance after prepare_runtime: find_free_port, the room
\* token, subprocess.Popen(..., shell=True) and the launch_info
launch_game_instance(c) ==
    /\ pc[c] = "start_port"
    /\ nextLaunch <= MaxLaunches
    /\ IF FreePorts = {}
         THEN /\ Reply(c, "no free port", loc[c].rid, NoInfo)
              /\ UNCHANGED <<proc, nextLaunch>>
         ELSE LET info == [port |-> FirstFreePort, token |-> RoomToken(now, loc[c].rid),
                           roomId |-> loc[c].rid]
              IN /\ proc' = [proc EXCEPT ![nextLaunch] =
                               [state |-> "running", port |-> FirstFreePort,
                                token |-> info.token]]
                 /\ nextLaunch' = nextLaunch + 1
                 /\ Goto(c, "start_record",
                         [loc[c] EXCEPT !.info = info,
                                        !.act = [process |-> nextLaunch,
                                                 runtime |-> loc[c].rdir, info |-> info]])
    /\ UNCHANGED <<nreq, nacc, sessions, lock, cause, dbVars, active, bound, dirs, mon, now, frameVars>>

\* with self.lock: self.active_rooms[room_id] = {...}; the monitor thread starts
handle_start_game_record(c) ==
    /\ pc[c] = "start_record"
    /\ lock = Free
    /\ active' = [active EXCEPT ![loc[c].rid] = loc[c].act]
    /\ mon' = [mon EXCEPT ![loc[c].act.process] = [NoMon EXCEPT !.pc = "m_get", !.rid = loc[c].rid]]
    /\ Goto(c, "start_status", loc[c])
    /\ UNCHANGED <<nreq, nacc, sessions, lock, cause, dbVars, proc, bound, dirs, nextLaunch, now, frameVars>>

\* an update of the status that writes the row whether it exists or not
UpdateStatus_m(rid, st) == [rooms EXCEPT ![rid].status = st]

\* Room.update_status: UPDATE rooms SET status=? WHERE id=?
UpdateStatus(rid, st) == IF rooms[rid] = NoRoom THEN rooms
                         ELSE [rooms EXCEPT ![rid].status = st]

\* Room.update_status playing, then the response with the launch_info
handle_start_game_status(c) ==
    /\ pc[c] = "start_status"
    /\ rooms' = UpdateStatus(loc[c].rid, "playing")
    /\ Reply(c, "started", loc[c].rid, loc[c].info)
    /\ UNCHANGED <<nreq, nacc, sessions, lock, cause, nextRoomId, members, invites, nextInviteId, launchVars, now, frameVars>>

\* ----------------------------------------------------------- worker process
\* the worker binds GAME_SERVER_PORT, or exits when the port is taken
worker_bind(l) ==
    /\ proc[l].state = "running"
    /\ l \notin bound
    /\ IF proc[l].port \in PortsInUse
         THEN /\ proc' = [proc EXCEPT ![l].state = "exited"]
              /\ UNCHANGED bound
         ELSE /\ bound' = bound \cup {l}
              /\ UNCHANGED proc
    /\ resp' = NoResp
    /\ UNCHANGED <<nreq, nacc, sessions, lock, pc, loc, cause, dbVars, active, dirs, mon, nextLaunch, now, frameVars>>

\* the worker exits, with any exit code
worker_exit(l) ==
    /\ proc[l].state = "running"
    /\ proc' = [proc EXCEPT ![l].state = "exited"]
    /\ bound' = bound \ {l}
    /\ resp' = NoResp
    /\ UNCHANGED <<nreq, nacc, sessions, lock, pc, loc, cause, dbVars, active, dirs, mon, nextLaunch, now, frameVars>>

\* time.time() moves on
tick ==
    /\ now < MaxTime
    /\ now' = now + 1
    /\ resp' = NoResp
    /\ UNCHANGED <<nreq, nacc, sessions, lock, pc, loc, cause, dbVars, launchVars, frameVars>>

\* ------------------------------------------------------ monitor_room_process
connVars == <<pc, loc, cause, nreq, nacc>>
MonGoto(l, p, m) == /\ mon' = [mon EXCEPT ![l] = [m EXCEPT !.pc = p]]
                    /\ resp' = NoResp
MonDone(l) == /\ mon' = [mon EXCEPT ![l] = DoneMon]
              /\ resp' = NoResp

\* with self.lock: entry = self.active_rooms.get(room_id)
monitor_get(l) ==
    /\ mon[l].pc = "m_get"
    /\ lock = Free
    /\ IF active[mon[l].rid] = NoEntry
         THEN MonDone(l)
         ELSE MonGoto(l, "m_wait", [mon[l] EXCEPT !.entry = active[mon[l].rid]])
    /\ UNCHANGED <<sessions, lock, connVars, dbVars, active, proc, bound, dirs, nextLaunch, now, frameVars>>

\* the wait for the worker and the removal of the directory, both inside the
\* block that holds the lock
monitor_wait_m(l) ==
    /\ mon[l].pc = "m_wait"
    /\ lock = Free
    /\ proc[mon[l].entry.process].state = "exited"
    /\ dirs' = dirs \ {mon[l].entry.runtime}
    /\ MonGoto(l, "m_pop", mon[l])
    /\ UNCHANGED <<sessions, lock, connVars, dbVars, active, proc, bound, nextLaunch, now, frameVars>>

\* process.wait() returns once the worker has exited; then
\* shutil.rmtree(runtime, ignore_errors=True)
monitor_wait(l) ==
    /\ mon[l].pc = "m_wait"
    /\ proc[mon[l].entry.process].state = "exited"
    /\ dirs' = dirs \ {mon[l].entry.runtime}
    /\ MonGoto(l, "m_pop", mon[l])
    /\ UNCHANGED <<sessions, lock, connVars, dbVars, active, proc, bound, nextLaunch, now, frameVars>>

\* with self.lock: removed = self.active_rooms.pop(room_id, None)
monitor_pop(l) ==
    /\ mon[l].pc = "m_pop"
    /\ lock = Free
    /\ active' = [active EXCEPT ![mon[l].rid] = NoEntry]
    /\ IF active[mon[l].rid] = NoEntry
         THEN MonDone(l)
         ELSE MonGoto(l, "m_read", [mon[l] EXCEPT !.entry = NoEntry])
    /\ UNCHANGED <<sessions, lock, connVars, dbVars, proc, bound, dirs, nextLaunch, now, frameVars>>

\* Room.read: the room is gone or closed
monitor_read(l) ==
    /\ mon[l].pc = "m_read"
    /\ IF rooms[mon[l].rid] = NoRoom \/ rooms[mon[l].rid].status = "closed"
         THEN MonDone(l)
         ELSE MonGoto(l, "m_list", mon[l])
    /\ UNCHANGED <<sessions, lock, connVars, dbVars, active, proc, bound, dirs, nextLaunch, now, frameVars>>

\* RoomMember.list
monitor_list(l) ==
    /\ mon[l].pc = "m_list"
    /\ MonGoto(l, "m_online", [mon[l] EXCEPT !.mem = MemberList(mon[l].rid)])
    /\ UNCHANGED <<sessions, lock, connVars, dbVars, active, proc, bound, dirs, nextLaunch, now, frameVars>>

\* any(m.get("player_id") in online_ids for m in members)
AnyOnline(mem, online) == mem \cap online # {}

\* get_online_player_ids under the lock, and the choice of the branch
monitor_online(l) ==
    /\ mon[l].pc = "m_online"
    /\ lock = Free
    /\ MonGoto(l, IF AnyOnline(mon[l].mem, OnlineIds) THEN "m_status" ELSE "m_cr_lock",
               [mon[l] EXCEPT !.mem = {}])
    /\ UNCHANGED <<sessions, lock, connVars, dbVars, active, proc, bound, dirs, nextLaunch, now, frameVars>>

\* Room.update_status waiting
monitor_status(l) ==
    /\ mon[l].pc = "m_status"
    /\ rooms' = UpdateStatus(mon[l].rid, "waiting")
    /\ MonDone(l)
    /\ UNCHANGED <<sessions, lock, connVars, nextRoomId, members, invites, nextInviteId,
                   active, proc, bound, dirs, nextLaunch, now, frameVars>>

\* cleanup_room called by the monitor: the pop under the lock
monitor_cleanup_pop(l) ==
    /\ mon[l].pc = "m_cr_lock"
    /\ lock = Free
    /\ active' = [active EXCEPT ![mon[l].rid] = NoEntry]
    /\ MonGoto(l, IF active[mon[l].rid] # NoEntry THEN "m_cr_kill" ELSE "m_cr_invites",
               [mon[l] EXCEPT !.act = active[mon[l].rid]])
    /\ UNCHANGED <<sessions, lock, connVars, dbVars, proc, bound, dirs, nextLaunch, now, frameVars>>

monitor_cleanup_kill(l) ==
    /\ mon[l].pc = "m_cr_kill"
    /\ proc' = [proc EXCEPT ![mon[l].act.process].state = "exited"]
    /\ bound' = bound \ {mon[l].act.process}
    /\ dirs' = dirs \ {mon[l].act.runtime}
    /\ MonGoto(l, "m_cr_invites", [mon[l] EXCEPT !.act = NoEntry])
    /\ UNCHANGED <<sessions, lock, connVars, dbVars, active, nextLaunch, now, frameVars>>

monitor_cleanup_invites(l) ==
    /\ mon[l].pc = "m_cr_invites"
    /\ invites' = {i \in invites : i.room # mon[l].rid}
    /\ MonGoto(l, "m_cr_members", mon[l])
    /\ UNCHANGED <<sessions, lock, connVars, rooms, nextRoomId, members, nextInviteId,
                   active, proc, bound, dirs, nextLaunch, now, frameVars>>

monitor_cleanup_members(l) ==
    /\ mon[l].pc = "m_cr_members"
    /\ members' = {m \in members : m[1] # mon[l].rid}
    /\ MonGoto(l, "m_cr_delete", mon[l])
    /\ UNCHANGED <<sessions, lock, connVars, rooms, nextRoomId, invites, nextInviteId,
                   active, proc, bound, dirs, nextLaunch, now, frameVars>>

monitor_cleanup_delete(l) ==
    /\ mon[l].pc = "m_cr_delete"
    /\ rooms' = RoomDelete(mon[l].rid)
    /\ MonDone(l)
    /\ UNCHANGED <<sessions, lock, connVars, nextRoomId, members, invites, nextInviteId,
                   active, proc, bound, dirs, nextLaunch, now, frameVars>>

\* ---------------------------------------------------------------- GET_GAME
\* with self.lock: entry = self.active_rooms.get(int(room_id))
handle_get_game(c) ==
    /\ pc[c] = "idle"
    /\ sessions[c] > 0
    /\ lock = Free
    /\ \E rid \in RoomIds :
         IF active[rid] = NoEntry
           THEN Reply(c, "no active game", rid, NoInfo)
           ELSE Goto(c, "get_read", [L0 EXCEPT !.me = sessions[c], !.rid = rid,
                                               !.act = active[rid]])
    /\ nreq < MaxRequests
    /\ nreq' = nreq + 1
    /\ UNCHANGED <<nacc, sessions, lock, cause, dbVars, launchVars, now, frameVars>>

\* Room.read
handle_get_game_read(c) ==
    /\ pc[c] = "get_read"
    /\ IF rooms[loc[c].rid] = NoRoom
         THEN Reply(c, "room not found", 0, NoInfo)
         ELSE Goto(c, "get_list", loc[c])
    /\ UNCHANGED <<nreq, nacc, sessions, lock, cause, dbVars, launchVars, now, frameVars>>

\* RoomMember.list, the check of the membership, info = dict(entry["info"])
handle_get_game_list(c) ==
    /\ pc[c] = "get_list"
    /\ IF loc[c].me \in MemberList(loc[c].rid)
         THEN Reply(c, "launch", loc[c].rid, loc[c].act.info)
         ELSE Reply(c, "not in room", loc[c].rid, NoInfo)
    /\ UNCHANGED <<nreq, nacc, sessions, lock, cause, dbVars, launchVars, now, frameVars>>

\* ------------------------------------------------------ DBClient.call fails
\* the positions of a handler whose next statement is a self.db.call outside
\* any try block
DbCallSites == {"login_commit", "create_code", "create_insert", "create_add",
                "join_read", "join_list", "join_add", "leave_remove",
                "inv_list", "inv_create", "acc_read", "acc_room", "acc_purge",
                "acc_list", "acc_add", "acc_status", "start_list", "start_status",
                "get_read", "get_list"}

\* DBClient.call raises (the connection to the DB server fails, or its answer
\* is not ok): the exception leaves the handler and the request loop, is
\* printed by except Exception, and the finally block follows
db_call_raises(c) ==
    /\ pc[c] \in DbCallSites
    /\ Raise(c)
    /\ cause' = [cause EXCEPT ![c] = "db"]
    /\ UNCHANGED <<nreq, nacc, sessions, lock, dbVars, launchVars, now, frameVars>>

\* ------------------------------------------------- frames on one connection
otherVars == <<sessions, lock, pc, loc, cause, nreq, nacc, dbVars, launchVars, now>>

Octets == 0..(NumOctets - 1)
\* the bodies a caller hands to send_frame, the empty one included
Bodies == UNION {[1..n -> Octets] : n \in 0..MaxBody}

\* struct.pack("!I", n) in the order of the bytes on a little-endian host
Pack_m(n) == <<n % 256, (n \div 256) % 256, (n \div 65536) % 256, (n \div 16777216) % 256>>

\* struct.pack("!I", n): 4 bytes, most significant first
Pack(n) == <<(n \div 16777216) % 256, (n \div 65536) % 256, (n \div 256) % 256, n % 256>>

\* struct.unpack("!I", header) of a header that recv_frame accepts
Unpack(h) == HeaderHigh(h) * 65536 + HeaderLow(h)

\* send_frame: an empty or oversize body raises ValueError, nothing is sent;
\* otherwise the header is packed and send_all(sock, header) begins
send_frame(body) ==
    /\ tx.pc = "idle"
    /\ ~tx.raised
    /\ Len(tx.sent) < MaxFrames
    /\ IF Len(body) <= 0 \/ Len(body) > MAX_FRAME
         THEN tx' = [tx EXCEPT !.raised = TRUE]
         ELSE tx' = [tx EXCEPT !.pc = "header", !.buf = Pack(Len(body)), !.body = body,
                               !.sent = Append(tx.sent, body)]
    /\ resp' = NoResp
    /\ UNCHANGED <<wire, rx, otherVars>>

\* send_all: sock.send(data[total:]) takes the first k bytes that are left;
\* after the header, send_all(sock, body)
send_all(k) ==
    /\ tx.pc \in {"header", "body"}
    /\ k \in 1..Len(tx.buf)
    /\ wire' = wire \o SubSeq(tx.buf, 1, k)
    /\ LET rest == SubSeq(tx.buf, k + 1, Len(tx.buf))
           part == tx.partial \/ k < Len(tx.buf)
       IN tx' = IF rest # <<>>
                  THEN [tx EXCEPT !.buf = rest, !.partial = part]
                  ELSE IF tx.pc = "header"
                    THEN [tx EXCEPT !.pc = "body", !.buf = tx.body, !.partial = part]
                    ELSE [tx EXCEPT !.pc = "idle", !.buf = <<>>, !.body = <<>>,
                                    !.partial = part]
    /\ resp' = NoResp
    /\ UNCHANGED <<rx, otherVars>>

\* a peer that writes a header of its own choice, and one more byte after it
peer_sends(h) ==
    /\ tx.pc = "idle"
    /\ Len(tx.sent) < MaxFrames
    /\ wire' = wire \o h \o <<1>>
    /\ tx' = [tx EXCEPT !.sent = Append(tx.sent, h)]
    /\ resp' = NoResp
    /\ UNCHANGED <<rx, otherVars>>

\* recv_frame is called: header = recv_all(sock, 4)
recv_frame ==
    /\ rx.pc = "idle"
    /\ Len(rx.got) < MaxFrames
    /\ rx' = [rx EXCEPT !.pc = "header", !.need = 4, !.data = <<>>, !.header = <<>>,
                        !.consumed = 0]
    /\ resp' = NoResp
    /\ UNCHANGED <<wire, tx, otherVars>>

\* recv_all: sock.recv(length - len(data)) returns the first k bytes of the
\* stream; a complete header is unpacked and checked, a complete body returned
recv_all(k) ==
    /\ rx.pc \in {"header", "body"}
    /\ k \in 1..Len(wire)
    /\ k <= rx.need - Len(rx.data)
    /\ wire' = SubSeq(wire, k + 1, Len(wire))
    /\ LET data == rx.data \o SubSeq(wire, 1, k)
           part == rx.partial \/ k < rx.need - Len(rx.data)
           used == rx.consumed + k
       IN rx' = IF Len(data) < rx.need
                  THEN [rx EXCEPT !.data = data, !.partial = part, !.consumed = used]
                  ELSE IF rx.pc = "header"
                    THEN IF BadLength(data)
                           THEN [rx EXCEPT !.pc = "raised", !.data = <<>>, !.header = data,
                                           !.partial = part, !.consumed = used]
                           ELSE [rx EXCEPT !.pc = "body", !.need = Unpack(data),
                                           !.data = <<>>, !.header = data,
                                           !.partial = part, !.consumed = used]
                    ELSE [rx EXCEPT !.pc = "idle", !.need = 0, !.data = <<>>,
                                    !.got = Append(rx.got, data), !.partial = part,
                                    !.consumed = used]
    /\ resp' = NoResp
    /\ UNCHANGED <<tx, otherVars>>

\* sock.send reports 0 bytes: send_all raises ConnectionError
send_all_zero ==
    /\ tx.pc \in {"header", "body"}
    /\ tx' = [tx EXCEPT !.pc = "closed"]
    /\ resp' = NoResp
    /\ UNCHANGED <<wire, rx, otherVars>>

\* a recv_all that hands back what it has when sock.recv returns no bytes
recv_all_eof_m ==
    /\ rx.pc \in {"header", "body"}
    /\ wire = <<>>
    /\ rx' = [rx EXCEPT !.pc = "idle", !.need = 0, !.got = Append(rx.got, rx.data),
                        !.data = <<>>]
    /\ resp' = NoResp
    /\ UNCHANGED <<wire, tx, otherVars>>

\* sock.recv returns b"" (the peer has closed and the stream is drained):
\* recv_all raises ConnectionError
recv_all_eof ==
    /\ rx.pc \in {"header", "body"}
    /\ wire = <<>>
    /\ rx' = [rx EXCEPT !.pc = "closed"]
    /\ resp' = NoResp
    /\ UNCHANGED <<wire, tx, otherVars>>

\* ------------------------------------------------------------ specification
\* accept, loss of the connection, the finally block and cleanup_user
LifeStep(c) ==
    \/ handle_client_accept(c)
    \/ recv_json_raises(c)
    \/ handle_client_finally(c)
    \/ cleanup_user_list(c)
    \/ cleanup_user_members(c)
    \/ cleanup_user_invites(c)

CleanupRoomStep(c) ==
    \/ cleanup_room_pop(c)
    \/ cleanup_room_invites(c)
    \/ cleanup_room_members(c)
    \/ cleanup_room_delete(c)

LoginStep(c) ==
    \/ \E a \in Accounts : handle_login(c, a, TRUE)
    \/ handle_login_check(c)
    \/ handle_login_commit(c)

LogoutStep(c) ==
    \/ handle_logout(c)
    \/ handle_logout_clear(c)

RejectStep(c) ==
    \/ \E a \in Accounts : handle_login(c, a, FALSE)
    \/ not_authenticated(c)

CreateRoomStep(c, cap) ==
    \/ handle_create_room(c, cap)
    \/ generate_room_code(c)
    \/ handle_create_room_insert(c)
    \/ handle_create_room_add(c)

JoinStep(c) ==
    \/ \E byCode \in BOOLEAN, rid \in RoomIds, code \in Codes :
         handle_join_room(c, byCode, rid, code)
    \/ handle_join_room_read(c)
    \/ handle_join_room_list(c)
    \/ handle_join_room_add(c)

LeaveStep(c) ==
    \/ handle_leave_room(c)
    \/ handle_leave_room_remove(c)

InviteStep(c) ==
    \/ handle_invite(c)
    \/ handle_invite_list(c)
    \/ handle_invite_create(c)
    \/ handle_accept_invite(c)
    \/ handle_accept_invite_read(c)
    \/ handle_accept_invite_room(c)
    \/ handle_accept_invite_purge(c)
    \/ handle_accept_invite_list(c)
    \/ handle_accept_invite_add(c)
    \/ handle_accept_invite_status(c)

StartGameStep(c, mp) ==
    \/ handle_start_game(c)
    \/ handle_start_game_list(c, mp)
    \/ prepare_runtime(c)
    \/ launch_game_instance(c)
    \/ handle_start_game_record(c)
    \/ handle_start_game_status(c)

\* START_GAME of a game published with the minimum player count min_players
StartStep(c) == StartGameStep(c, min_players)

GetGameStep(c) ==
    \/ handle_get_game(c)
    \/ handle_get_game_read(c)
    \/ handle_get_game_list(c)

MonitorStep(l) ==
    \/ monitor_get(l)
    \/ monitor_wait(l)
    \/ monitor_pop(l)
    \/ monitor_read(l)
    \/ monitor_list(l)
    \/ monitor_online(l)
    \/ monitor_status(l)

MonitorCleanupStep(l) ==
    \/ monitor_cleanup_pop(l)
    \/ monitor_cleanup_invites(l)
    \/ monitor_cleanup_members(l)
    \/ monitor_cleanup_delete(l)

WorkerStep(l) ==
    \/ worker_bind(l)
    \/ worker_exit(l)

\* every step of the server and of its environment
Next ==
    \/ \E c \in Conns : LifeStep(c)
    \/ \E c \in Conns : CleanupRoomStep(c)
    \/ \E c \in Conns : cleanup_room_kill(c)
    \/ \E c \in Conns : LoginStep(c)
    \/ \E c \in Conns : LogoutStep(c)
    \/ \E c \in Conns : RejectStep(c)
    \/ \E c \in Conns, cap \in Capacities : CreateRoomStep(c, cap)
    \/ \E c \in Conns : JoinStep(c)
    \/ \E c \in Conns : LeaveStep(c)
    \/ \E c \in Conns : InviteStep(c)
    \/ \E c \in Conns : StartStep(c)
    \/ \E c \in Conns : GetGameStep(c)
    \/ \E l \in Launches : MonitorStep(l)
    \/ \E l \in Launches : MonitorCleanupStep(l)
    \/ \E l \in Launches : monitor_cleanup_kill(l)
    \/ \E l \in Launches : WorkerStep(l)
    \/ \E c \in Conns : db_call_raises(c)
    \/ tick

Spec == Init /\ [][Next]_vars

\* sessions only: LOGIN, LOGOUT and the loss of connections
NextSession ==
    \/ \E c \in Conns : LifeStep(c)
    \/ \E c \in Conns : LoginStep(c)
    \/ \E c \in Conns : LogoutStep(c)
    \/ \E c \in Conns : RejectStep(c)

SpecSession == Init /\ [][NextSession]_vars

\* sessions and rooms, no launches
NextRoom ==
    \/ \E c \in Conns : LifeStep(c)
    \/ \E c \in Conns : CleanupRoomStep(c)
    \/ \E c \in Conns : LoginStep(c)
    \/ \E c \in Conns : LogoutStep(c)
    \/ \E c \in Conns, cap \in Capacities : CreateRoomStep(c, cap)
    \/ \E c \in Conns : JoinStep(c)
    \/ \E c \in Conns : LeaveStep(c)

SpecRoom == Init /\ [][NextRoom]_vars

\* one client, its launches, their workers and monitors
NextLaunch ==
    \/ LifeStep(1)
    \/ CleanupRoomStep(1)
    \/ cleanup_room_kill(1)
    \/ LoginStep(1)
    \/ LogoutStep(1)
    \/ CreateRoomStep(1, MaxCapacity)
    \/ StartStep(1)
    \/ GetGameStep(1)
    \/ \E l \in Launches : MonitorStep(l)
    \/ \E l \in Launches : MonitorCleanupStep(l)
    \/ \E l \in Launches : WorkerStep(l)

SpecLaunch == Init /\ [][NextLaunch]_vars

\* two clients starting games, and the workers
NextRace ==
    \/ \E c \in Conns : handle_client_accept(c)
    \/ \E c \in Conns : LoginStep(c)
    \/ \E c \in Conns : CreateRoomStep(c, MaxCapacity)
    \/ \E c \in Conns : StartStep(c)
    \/ \E c \in Conns : GetGameStep(c)
    \/ \E l \in Launches : WorkerStep(l)

SpecRace == Init /\ [][NextRace]_vars

\* the steps a connection's thread takes by itself once the request, or the
\* loss of the connection, has arrived
ServerStep(c) ==
    \/ handle_client_finally(c)
    \/ cleanup_user_list(c)
    \/ cleanup_user_members(c)
    \/ cleanup_user_invites(c)
    \/ CleanupRoomStep(c)
    \/ handle_login_check(c)
    \/ handle_login_commit(c)
    \/ handle_logout_clear(c)
    \/ generate_room_code(c)
    \/ handle_create_room_insert(c)
    \/ handle_create_room_add(c)
    \/ handle_join_room_read(c)
    \/ handle_join_room_list(c)
    \/ handle_join_room_add(c)
    \/ handle_leave_room_remove(c)
    \/ cleanup_room_kill(c)
    \/ \E mp \in Capacities : handle_start_game_list(c, mp)
    \/ prepare_runtime(c)
    \/ launch_game_instance(c)
    \/ handle_start_game_record(c)
    \/ handle_start_game_status(c)

\* room owners and joiners, and the loss of their connections; every
\* connection thread that can take a step is scheduled in the end
NextOwner ==
    \/ \E c \in Conns : LifeStep(c)
    \/ \E c \in Conns : CleanupRoomStep(c)
    \/ \E c \in Conns : LoginStep(c)
    \/ \E c \in Conns : LogoutStep(c)
    \/ \E c \in Conns : CreateRoomStep(c, MaxCapacity)
    \/ \E c \in Conns : JoinStep(c)

SpecOwner == Init /\ [][NextOwner]_vars /\ \A c \in Conns : WF_vars(ServerStep(c))

\* an owner on connection 1 and a guest on connection 2 in a room of a game
\* that needs MaxCapacity players, its launches, workers and monitors
NextGame ==
    \/ \E c \in Conns : handle_client_accept(c)
    \/ \E c \in Conns : LoginStep(c)
    \/ CreateRoomStep(1, MaxCapacity)
    \/ JoinStep(2)
    \/ \E c \in Conns : LeaveStep(c)
    \/ \E c \in Conns : CleanupRoomStep(c)
    \/ \E c \in Conns : cleanup_room_kill(c)
    \/ StartGameStep(1, MaxCapacity)
    \/ \E l \in Launches : MonitorStep(l)
    \/ \E l \in Launches : MonitorCleanupStep(l)
    \/ \E l \in Launches : WorkerStep(l)

SpecGame == Init /\ [][NextGame]_vars

\* an owner on connection 1 who creates and starts rooms of games with
\* either minimum player count, and a guest on connection 2 who joins
NextValidate ==
    \/ \E c \in Conns : handle_client_accept(c)
    \/ \E c \in Conns : LoginStep(c)
    \/ \E cap \in Capacities : CreateRoomStep(1, cap)
    \/ JoinStep(2)
    \/ \E mp \in Capacities : StartGameStep(1, mp)

SpecValidate == Init /\ [][NextValidate]_vars

\* one owner who starts a game and then leaves, logs out or is lost, the
\* worker and the monitor; the connection thread and the monitor threads are
\* scheduled in the end whenever they can take a step
NextTeardown ==
    \/ LifeStep(1)
    \/ CleanupRoomStep(1)
    \/ cleanup_room_kill(1)
    \/ LoginStep(1)
    \/ LogoutStep(1)
    \/ LeaveStep(1)
    \/ CreateRoomStep(1, MaxCapacity)
    \/ StartStep(1)
    \/ \E l \in Launches : MonitorStep(l)
    \/ \E l \in Launches : MonitorCleanupStep(l)
    \/ \E l \in Launches : WorkerStep(l)

SpecTeardown ==
    /\ Init
    /\ [][NextTeardown]_vars
    /\ WF_vars(ServerStep(1))
    /\ \A l \in Launches : WF_vars(MonitorStep(l) \/ MonitorCleanupStep(l))

\* clients that log in, create rooms, invite each other, accept, log out
\* and lose their connections; an invite never outlives its room here, so
\* ACCEPT_INVITE has no invites of a missing room to purge
NextLogout ==
    \/ \E c \in Conns : LifeStep(c)
    \/ \E c \in Conns : CleanupRoomStep(c)
    \/ \E c \in Conns : LoginStep(c)
    \/ \E c \in Conns : LogoutStep(c)
    \/ \E c \in Conns : CreateRoomStep(c, MaxCapacity)
    \/ \E c \in Conns : handle_invite(c)
    \/ \E c \in Conns : handle_invite_list(c)
    \/ \E c \in Conns : handle_invite_create(c)
    \/ \E c \in Conns : handle_accept_invite(c)
    \/ \E c \in Conns : handle_accept_invite_read(c)
    \/ \E c \in Conns : handle_accept_invite_room(c)
    \/ \E c \in Conns : handle_accept_invite_list(c)
    \/ \E c \in Conns : handle_accept_invite_add(c)
    \/ \E c \in Conns : handle_accept_invite_status(c)

SpecLogout == Init /\ [][NextLogout]_vars

\* one client that creates rooms and starts games while RPCs to the DB
\* server may fail, the workers and the monitors
NextStorage ==
    \/ LifeStep(1)
    \/ LoginStep(1)
    \/ CreateRoomStep(1, MaxCapacity)
    \/ StartStep(1)
    \/ GetGameStep(1)
    \/ db_call_raises(1)
    \/ \E l \in Launches : MonitorStep(l)
    \/ \E l \in Launches : MonitorCleanupStep(l)
    \/ \E l \in Launches : WorkerStep(l)

SpecStorage == Init /\ [][NextStorage]_vars

\* one connection: frames sent by send_frame and received by recv_frame
NextFrame ==
    \/ \E body \in Bodies : send_frame(body)
    \/ \E k \in 1..(MaxBody + 4) : send_all(k)
    \/ recv_frame
    \/ \E k \in 1..(MaxBody + 4) : recv_all(k)

SpecFrame == Init /\ [][NextFrame]_vars

\* one connection whose socket may report 0 bytes sent, and whose peer may
\* close it
NextTransfer ==
    \/ \E body \in Bodies : send_frame(body)
    \/ \E k \in 1..(MaxBody + 4) : send_all(k)
    \/ send_all_zero
    \/ recv_frame
    \/ \E k \in 1..(MaxBody + 4) : recv_all(k)
    \/ recv_all_eof

SpecTransfer == Init /\ [][NextTransfer]_vars

\* one connection whose peer writes headers of its own choice
NextHeader ==
    \/ \E h \in Headers : peer_sends(h)
    \/ recv_frame
    \/ \E k \in 1..(MaxBody + 4) : recv_all(k)

SpecHeader == Init /\ [][NextHeader]_vars

\* the clients of SpecLogout, whose requests may also arrive without a session
NextGuard ==
    \/ NextLogout
    \/ \E c \in Conns : RejectStep(c)

SpecGuard == Init /\ [][NextGuard]_vars

\* two connections that may hold sessions of one account: the first creates
\* the account's room and starts its game, the second leaves the room
NextShared ==
    \/ \E c \in Conns : handle_client_accept(c)
    \/ \E c \in Conns : LoginStep(c)
    \/ CreateRoomStep(1, MaxCapacity)
    \/ LeaveStep(2)
    \/ CleanupRoomStep(2)
    \/ cleanup_room_kill(2)
    \/ StartStep(1)
    \/ \E l \in Launches : MonitorStep(l)
    \/ \E l \in Launches : MonitorCleanupStep(l)
    \/ \E l \in Launches : WorkerStep(l)

SpecShared == Init /\ [][NextShared]_vars

\* one client that starts its room again after the worker has exited, while
\* the clock moves on
NextToken ==
    \/ handle_client_accept(1)
    \/ LoginStep(1)
    \/ CreateRoomStep(1, MaxCapacity)
    \/ StartStep(1)
    \/ \E l \in Launches : MonitorStep(l)
    \/ \E l \in Launches : WorkerStep(l)
    \/ tick

SpecToken == Init /\ [][NextToken]_vars

\* ------------------------------------------------------------------ claims
\* C1: in every reachable state the number of membership records of each
\* room is at most the room's capacity.
C1_MembersWithinCapacity ==
    \A r \in RoomIds :
        rooms[r] # NoRoom => Cardinality(MemberList(r)) <= rooms[r].cap

\* C2: in every reachable state a room's stored status is 'playing' if and
\* only if the active-launch table holds an entry for the room.
C2_PlayingIffActiveLaunch ==
    \A r \in RoomIds : (rooms[r].status = "playing") <=> (active[r] # NoEntry)

\* C3: at every instant at most one connection of the session table holds a
\* live session of any given account.
C3_OneSessionPerAccount ==
    \A c, d \in Conns : (c # d /\ sessions[c] > 0) => sessions[c] # sessions[d]

\* C4: no two entries that coexist in the active-launch table carry the
\* same allocated port.
C4_DistinctPorts ==
    \A r1, r2 \in RoomIds :
        (r1 # r2 /\ active[r1] # NoEntry /\ active[r2] # NoEntry)
            => active[r1].info.port # active[r2].info.port

\* C8: in every reachable state each player is a member of at most one open
\* room (status waiting, launching or playing).
C8_OneOpenRoomPerPlayer ==
    \A p \in Accounts : Cardinality(FindPlayerRoom(p)) <= 1

\* C9: once START_GAME has succeeded the room is 'playing', and while a
\* launch of the room is active the host, port and roomToken handed out by
\* START_GAME and by GET_GAME are those of that launch.
C9_SameLaunchInfo ==
    /\ resp.kind = "started" => rooms[resp.rid].status = "playing"
    /\ (resp.kind \in {"started", "launch"} /\ active[resp.rid] # NoEntry)
           => resp.info = active[resp.rid].info

\* C10: a LOGIN with valid credentials for an account that has a live
\* session on another connection is answered with the duplicate-session
\* error, and changes no entry of the session table: the existing session
\* stays and the requesting connection stays as it was.
C10_DuplicateLoginRejected ==
    [][\A c \in Conns :
          (handle_login_check(c)
             /\ \E d \in Conns \ {c} : sessions[d] = loc[c].acct)
          => /\ resp' = [conn |-> c, kind |-> "already logged in", rid |-> 0,
                         info |-> NoInfo]
             /\ sessions' = sessions
             /\ pc'[c] = "idle"]_vars

\* a duplicate LOGIN was just refused on an unauthenticated connection while
\* another connection holds a live session
C10_Witness ==
    /\ resp.kind = "already logged in"
    /\ sessions[resp.conn] = NoSession
    /\ \E d \in Conns \ {resp.conn} : sessions[d] > 0

\* C5: when the connection of a logged-in owner of a 'waiting' room is lost,
\* the cleanup runs to completion: eventually the connection is closed with
\* its session removed, and the room and all its memberships are removed.
C5_OwnerDisconnectCleanup ==
    \A c \in Conns : \A r \in RoomIds :
        (pc[c] = "finally" /\ sessions[c] > 0 /\ rooms[r].status = "waiting"
            /\ rooms[r].owner = sessions[c])
        ~> (pc[c] = "closed" /\ rooms[r] = NoRoom /\ MemberList(r) = {})

\* C6: once the worker of a started room has exited and the START_GAME
\* handler and the monitors have run to their end, a room that has a member
\* online is 'waiting' and has no active-launch entry: it is not left
\* 'playing'.
C6_RoomNotLeftPlaying ==
    \A r \in RoomIds :
        (/\ \A c \in Conns : pc[c] \in {"idle", "closed"}
         /\ \A l \in Launches : mon[l].pc \in {"none", "done"}
         /\ rooms[r] # NoRoom
         /\ AnyOnline(MemberList(r), OnlineIds))
        => (rooms[r].status = "waiting" /\ active[r] = NoEntry)

\* C7: when a connection is being closed for a frame header declaring a
\* length above MAX_FRAME (or 0), a request of another connection that waits
\* for the shared lock is completed in the end.
C7_OthersStillServed ==
    \A c \in Conns : \A d \in Conns \ {c} :
        (cause[c] = "frame" /\ pc[d] = "login_check") ~> (pc[d] # "login_check")

\* C11 (as worded): every answer to a JOIN_ROOM that names a room whose
\* member count equals its capacity is 'room full', and the request adds no
\* membership record.
C11_FullRoomAlwaysRoomFull ==
    [][\A c \in Conns :
          (/\ JoinStep(c)
           /\ resp'.conn = c
           /\ resp'.rid \in RoomIds
           /\ rooms[resp'.rid] # NoRoom
           /\ Cardinality(MemberList(resp'.rid)) = rooms[resp'.rid].cap)
          => (resp'.kind = "room full" /\ members' = members)]_vars

\* C11 (amended): when the handler of a JOIN_ROOM, whose requester is in no
\* open room and whose target was read as 'waiting', lists the members of the
\* room and finds as many as the capacity or more, the answer is 'room full'
\* and no membership record is added.
C11_FullRoomRefused ==
    [][\A c \in Conns :
          (/\ handle_join_room_list(c)
           /\ rooms[loc[c].rid] # NoRoom
           /\ Cardinality(MemberList(loc[c].rid)) >= rooms[loc[c].rid].cap)
          => (/\ resp' = [conn |-> c, kind |-> "room full", rid |-> loc[c].rid,
                          info |-> NoInfo]
              /\ members' = members
              /\ pc'[c] = "idle")]_vars

\* a JOIN_ROOM of a non-member was just refused with 'room full' for a room
\* that holds exactly as many members as its capacity
C11_Witness ==
    /\ resp.kind = "room full"
    /\ rooms[resp.rid] # NoRoom
    /\ Cardinality(MemberList(resp.rid)) = rooms[resp.rid].cap
    /\ sessions[resp.conn] > 0
    /\ sessions[resp.conn] \notin MemberList(resp.rid)

\* C12: the bodies recv_frame has returned are, in order, the bodies given
\* to send_frame, however send and recv split the bytes, and recv_frame
\* raises on none of them.
C12_FramesRoundTrip ==
    /\ rx.pc # "raised"
    /\ Len(rx.got) <= Len(tx.sent)
    /\ \A i \in 1..Len(rx.got) : rx.got[i] = tx.sent[i]

\* two frames whose bodies differ in length were sent and received whole,
\* with a partial send and a partial receive on the way
C12_Witness ==
    /\ Len(rx.got) = MaxFrames
    /\ rx.got = tx.sent
    /\ Len(rx.got[1]) # Len(rx.got[2])
    /\ tx.partial
    /\ rx.partial
    /\ wire = <<>>

\* C13: recv_frame raises exactly on a header that declares 0 or more than
\* MAX_FRAME, and when it raises it has consumed the 4 header bytes only:
\* the byte after the header is still in the stream.
C13_BadHeaderRejected ==
    LET declaresBad == \/ HeaderHigh(rx.header) = 0 /\ HeaderLow(rx.header) = 0
                       \/ HeaderHigh(rx.header) > MAX_FRAME \div 65536
                       \/ /\ HeaderHigh(rx.header) = MAX_FRAME \div 65536
                          /\ HeaderLow(rx.header) > MAX_FRAME % 65536
    IN /\ rx.pc = "raised" => (declaresBad /\ rx.consumed = 4 /\ Len(wire) >= 1)
       /\ rx.pc = "body" => ~declaresBad

\* recv_frame has raised on the header declaring 0xFFFFFFFF
C13_Witness ==
    /\ rx.pc = "raised"
    /\ rx.header = <<255, 255, 255, 255>>
    /\ rx.consumed = 4

\* C14: a room's status becomes 'playing' only in the Room.update_status
\* of a START_GAME, and when that update is applied the requester is the
\* room's owner, the status is 'waiting' and the room has at least the
\* game's minimum number of members.
C14_PlayingOnlyWhenValid ==
    [][/\ \A r \in RoomIds :
            (rooms'[r].status = "playing" /\ rooms[r].status # "playing")
            => \E c \in Conns : handle_start_game_status(c) /\ loc[c].rid = r
       /\ \A c \in Conns :
            (handle_start_game_status(c) /\ rooms[loc[c].rid] # NoRoom)
            => /\ rooms[loc[c].rid].owner = sessions[c]
               /\ rooms[loc[c].rid].status = "waiting"
               /\ Cardinality(MemberList(loc[c].rid)) >= loc[c].minp]_vars

\* C15: a JOIN_ROOM whose requester is a member of the room it names, by
\* roomId or by roomCode, is answered ok:true and leaves the membership
\* table unchanged.
C15_RejoinIsNoOp ==
    [][\A c \in Conns : \A byCode \in BOOLEAN : \A rid \in RoomIds : \A code \in Codes :
          (/\ handle_join_room(c, byCode, rid, code)
           /\ \E r \in (IF byCode THEN RoomsByCode(code) ELSE {rid}) :
                rooms[r] # NoRoom /\ sessions[c] \in MemberList(r))
          => (/\ resp'.conn = c
              /\ resp'.kind = "already in this room"
              /\ members' = members)]_vars

\* C16: when START_GAME fails before the worker has started, then after
\* the error is answered the room has no active-launch entry, its status is
\* 'waiting', and the runtime directory of the attempt does not exist (no
\* directory was made when the package is missing).
C16_FailedStartLeavesNothing ==
    [][\A c \in Conns :
          (/\ prepare_runtime(c) \/ launch_game_instance(c)
           /\ resp'.conn = c)
          => (/\ active'[loc[c].rid] = NoEntry
              /\ rooms'[loc[c].rid].status = "waiting"
              /\ resp'.kind = "package missing" => dirs' = dirs
              /\ resp'.kind # "package missing"
                   => RuntimeDir(loc[c].rid, now) \notin dirs')]_vars

\* C17: the validating steps of START_GAME and JOIN_ROOM change neither the
\* rooms, the memberships, the active-launch table nor the session table,
\* and a request they reject (not the owner, status not 'waiting', room
\* full, fewer members than the minimum) leaves its connection open, idle
\* and authenticated.
C17_RejectionChangesNothing ==
    [][\A c \in Conns :
          (\/ \E byCode \in BOOLEAN, rid \in RoomIds, code \in Codes :
                 handle_join_room(c, byCode, rid, code)
           \/ handle_join_room_read(c)
           \/ handle_join_room_list(c)
           \/ handle_start_game(c)
           \/ \E mp \in Capacities : handle_start_game_list(c, mp))
          => (/\ UNCHANGED <<rooms, members, active, sessions>>
              /\ resp'.kind \in {"only host can start", "cannot start game",
                                 "need at least min_players", "cannot join room",
                                 "room full"}
                   => (/\ resp'.conn = c
                       /\ pc'[c] = "idle"
                       /\ sessions'[c] > 0
                       /\ cause'[c] = "none"))]_vars

\* a START_GAME of the owner was just refused for want of members, in a
\* room that is still 'waiting' with its owner in it
C17_Witness ==
    /\ resp.kind = "need at least min_players"
    /\ rooms[resp.rid].status = "waiting"
    /\ rooms[resp.rid].owner = sessions[resp.conn]
    /\ sessions[resp.conn] \in MemberList(resp.rid)
    /\ active[resp.rid] = NoEntry
    /\ pc[resp.conn] = "idle"

\* C18: no connection thread holds the shared lock at a point where its
\* next statement is a Storage Facade RPC (the calls of cleanup_user and
\* cleanup_room) or a send on the client connection.
C18_NoSocketIoUnderLock ==
    \A c \in Conns :
        lock = c => pc[c] \notin {"cu_list", "cu_members", "cu_invites",
                                  "cr_invites", "cr_members", "cr_delete"}

\* C19: once the START_GAME and LEAVE_ROOM handlers and the monitors of
\* exited workers have run to their end, every room is in a state that the
\* same events reach when applied one at a time: the room is gone and has no
\* active-launch entry, or it is 'waiting' with no entry, or it is 'playing'
\* with an entry whose worker runs.
C19_SerialOutcomeOnly ==
    (/\ \A c \in Conns : pc[c] \in {"idle", "closed"}
     /\ \A l \in Launches :
          \/ mon[l].pc \in {"none", "done"}
          \/ mon[l].pc = "m_wait" /\ proc[l].state = "running")
    => \A r \in RoomIds :
         \/ rooms[r] = NoRoom /\ active[r] = NoEntry
         \/ rooms[r].status = "waiting" /\ active[r] = NoEntry
         \/ /\ rooms[r].status = "playing"
            /\ active[r] # NoEntry
            /\ proc[active[r].process].state = "running"

\* C20: when the worker of a room has exited, its active-launch entry is
\* still there, and cleanup_room is about to run for the owner's LEAVE_ROOM
\* or LOGOUT, or cleanup_user for the owner's lost connection, then in the
\* end the room has no active-launch entry and is gone: it is not left open.
C20_TeardownRaceCompletes ==
    \A r \in RoomIds :
        (/\ active[r] # NoEntry
         /\ proc[active[r].process].state = "exited"
         /\ \E c \in Conns :
              \/ pc[c] = "cr_lock" /\ loc[c].rid = r
              \/ pc[c] = "cu_list" /\ loc[c].me = rooms[r].owner)
        ~> (active[r] = NoEntry /\ rooms[r] = NoRoom)

\* C21: the close of a connection whose session LOGOUT has cleared runs no
\* second cleanup: the finally block only drops the connection's entry,
\* releases the lock and closes, and changes no table.  And when cleanup_user
\* does run for an account that owns no open room, is in no room and has no
\* invite, each of its steps leaves every table as it was.
C21_SecondCleanupNoOp ==
    [][\A c \in Conns :
          /\ (handle_client_finally(c) /\ sessions[c] = NoSession)
             => /\ sessions' = [sessions EXCEPT ![c] = Absent]
                /\ pc'[c] = "closed"
                /\ lock' = Free
                /\ UNCHANGED <<dbVars, launchVars>>
          /\ (/\ cleanup_user_list(c) \/ cleanup_user_members(c) \/ cleanup_user_invites(c)
              /\ ListByOwner(loc[c].me) = {}
              /\ \A m \in members : m[2] # loc[c].me
              /\ \A i \in invites : i.from # loc[c].me /\ i.to # loc[c].me)
             => /\ UNCHANGED <<dbVars, launchVars>>
                /\ pc'[c] \in {"cu_members", "cu_invites", "lo_clear", "closed"}]_vars

\* the one connection there was has logged in, created a room, logged out
\* (two requests counted: LOGIN and LOGOUT) and was closed: the room and its
\* memberships are gone and the lock is free
C21_Witness ==
    /\ nacc = 1
    /\ nreq = 2
    /\ \A c \in Conns : pc[c] = "closed" /\ sessions[c] = Absent
    /\ nextRoomId > 1
    /\ \A r \in RoomIds : rooms[r] = NoRoom
    /\ members = {}
    /\ lock = Free

\* C22: when a LOGOUT completes (the session is cleared and ok is answered)
\* the connection is unauthenticated, the account owns no open room, is a
\* member of no room, and no invite to or from the account is left.
C22_LogoutLeavesNothing ==
    [][\A c \in Conns :
          handle_logout_clear(c)
          => /\ sessions'[c] = NoSession
             /\ \A r \in RoomIds :
                  ~(rooms'[r].owner = loc[c].me /\ rooms'[r].status \in OpenStatus)
             /\ \A m \in members' : m[2] # loc[c].me
             /\ \A i \in invites' : i.from # loc[c].me /\ i.to # loc[c].me]_vars

\* C23: when the Room.update_status 'playing' of a START_GAME fails, no
\* active-launch entry of the room is left and the worker spawned for it is
\* not left running.
C23_NoEntryWithoutPlaying ==
    [][\A c \in Conns :
          (db_call_raises(c) /\ pc[c] = "start_status")
          => /\ active'[loc[c].rid] = NoEntry
             /\ proc'[loc[c].act.process].state # "running"]_vars

\* C24: when a Storage Facade RPC fails while a request is handled, the
\* requester is sent a response for that request (ok:false with an error
\* string).
C24_RpcFailureAnswered ==
    [][\A c \in Conns :
          db_call_raises(c) => (resp'.conn = c /\ resp'.kind # "none")]_vars

\* C25: a LOGIN rejected for bad credentials or for a duplicate session
\* leaves the session table as it was and the connection open and idle (an
\* unauthenticated connection stays unauthenticated); a LOGIN with valid
\* credentials whose scan finds no live session of the account goes on to
\* store the session and is answered ok.
C25_RejectedLoginSurvives ==
    [][\A c \in Conns :
          /\ (\/ \E a \in Accounts : handle_login(c, a, FALSE)
              \/ handle_login_check(c) /\ \E d \in Conns : sessions[d] = loc[c].acct)
             => /\ sessions' = sessions
                /\ pc'[c] = "idle"
                /\ cause' = cause
                /\ resp'.conn = c
                /\ resp'.kind \in {"invalid credentials", "already logged in"}
          /\ (handle_login_check(c) /\ ~ \E d \in Conns : sessions[d] = loc[c].acct)
             => (pc'[c] = "login_commit" /\ sessions' = sessions)
          /\ handle_login_commit(c)
             => /\ sessions' = [sessions EXCEPT ![c] = loc[c].acct]
                /\ resp' = [conn |-> c, kind |-> "ok", rid |-> 0, info |-> NoInfo]
                /\ pc'[c] = "idle"]_vars

\* a LOGIN with bad credentials was just rejected on an unauthenticated
\* connection, which is idle and can still send a LOGIN
C25_Witness ==
    /\ resp.kind = "invalid credentials"
    /\ sessions[resp.conn] = NoSession
    /\ pc[resp.conn] = "idle"
    /\ nreq < MaxRequests

\* C26: the live session of a connection is replaced or removed only by the
\* last step of LOGOUT or by the finally block of that connection; a LOGIN
\* on a connection that holds a live session does not replace it.
C26_SessionEndsOnlyByLogoutOrLoss ==
    [][\A c \in Conns :
          (sessions[c] > 0 /\ sessions'[c] # sessions[c])
          => (handle_logout_clear(c) \/ handle_client_finally(c))]_vars

\* C27: when a room is 'playing', the worker of its active launch has
\* exited and no member of the room has a live session, then in the end the
\* room is closed or deleted, it has no membership and no invite, its
\* active-launch entry is removed and the runtime directory of the launch
\* is removed.
C27_OrphanRoomCleaned ==
    \A r \in RoomIds : \A t \in 0..MaxTime :
        (/\ rooms[r].status = "playing"
         /\ active[r] # NoEntry
         /\ active[r].runtime = RuntimeDir(r, t)
         /\ proc[active[r].process].state = "exited"
         /\ ~AnyOnline(MemberList(r), OnlineIds))
        ~> (/\ rooms[r].status \in {"none", "closed"}
            /\ MemberList(r) = {}
            /\ \A i \in invites : i.room # r
            /\ active[r] = NoEntry
            /\ RuntimeDir(r, t) \notin dirs)

\* C28: in every reachable state no two open rooms hold the same join
\* code, however the check of generate_room_code and the insert of
\* concurrent CREATE_ROOM requests interleave.
C28_OpenRoomCodesDistinct ==
    \A r1, r2 \in RoomIds :
        (r1 # r2 /\ rooms[r1].status \in OpenStatus /\ rooms[r2].status \in OpenStatus)
            => rooms[r1].code # rooms[r2].code

\* two CREATE_ROOM requests chose the same code: the insert of one was
\* refused by the UNIQUE column and raised in its handler (the thread is at
\* the finally block without recv_json having raised), the room of the other
\* is open
C28_Witness ==
    \E c \in Conns :
        /\ pc[c] = "finally"
        /\ cause[c] = "none"
        /\ sessions[c] > 0
        /\ \E r \in RoomIds : rooms[r].status \in OpenStatus /\ rooms[r].owner # 0

\* C29: recv_all goes on reading until it holds exactly the number of
\* bytes asked for, and only then returns them; send_all goes on sending
\* until every byte of its buffer is on the wire, in order; a recv of no
\* bytes and a send of 0 bytes raise a connection error: nothing short is
\* returned, nothing more is written, and the call does not go on.
C29_TransfersAreComplete ==
    [][/\ \A k \in 1..(MaxBody + 4) :
            recv_all(k)
            => /\ Len(rx.data) + k <= rx.need
               /\ IF Len(rx.data) + k < rx.need
                    THEN /\ rx'.pc = rx.pc
                         /\ rx'.got = rx.got
                         /\ rx'.data = rx.data \o SubSeq(wire, 1, k)
                    ELSE /\ rx'.pc # rx.pc
                         /\ rx'.got # rx.got
                              => /\ rx'.got = Append(rx.got, rx.data \o SubSeq(wire, 1, k))
                                 /\ Len(rx.data) + k = rx.need
       /\ \A k \in 1..(MaxBody + 4) :
            send_all(k)
            => /\ wire' = wire \o SubSeq(tx.buf, 1, k)
               /\ IF k < Len(tx.buf)
                    THEN tx'.pc = tx.pc /\ tx'.buf = SubSeq(tx.buf, k + 1, Len(tx.buf))
                    ELSE tx'.pc # tx.pc
       /\ recv_all_eof => (rx'.pc = "closed" /\ rx'.got = rx.got /\ wire' = wire)
       /\ send_all_zero => (tx'.pc = "closed" /\ wire' = wire)
       /\ rx.pc = "closed" => rx' = rx
       /\ tx.pc = "closed" => (tx' = tx /\ Len(wire') <= Len(wire))]_vars

\* recv_all has raised on a recv of no bytes in the middle of a frame, with
\* a part of the bytes it was asked for already read
C29_Witness ==
    /\ rx.pc = "closed"
    /\ Len(rx.data) > 0
    /\ Len(rx.data) < rx.need
    /\ rx.partial

\* C30: while cleanup_user or cleanup_room runs for a LOGOUT or for the
\* loss of a connection, the session of the account has already been removed
\* from the session table: get_online_player_ids does not count the account.
C30_SessionGoneBeforeCleanup ==
    \A c \in Conns :
        (/\ pc[c] \in {"cu_list", "cu_members", "cu_invites", "cr_lock", "cr_kill",
                       "cr_invites", "cr_members", "cr_delete"}
         /\ loc[c].ctx \in {"logout", "finally"})
        => loc[c].me \notin OnlineIds

\* C31: when START_GAME writes the status 'playing' of a room, the monitor
\* of that launch has not yet run to its end: the status the monitor wrote
\* at the worker's exit ('waiting', or the removal of the room) is never
\* overwritten by the 'playing' of the launch it watched.
C31_MonitorExitNotOverwritten ==
    [][\A c \in Conns :
          (handle_start_game_status(c) /\ rooms[loc[c].rid] # NoRoom)
          => mon[loc[c].act.process].pc # "done"]_vars

\* C32: a membership record is added by JOIN_ROOM or ACCEPT_INVITE only
\* while the status of the room is 'waiting'.
C32_MemberAddedOnlyWhileWaiting ==
    [][\A c \in Conns :
          (handle_join_room_add(c) \/ handle_accept_invite_add(c))
          => rooms[loc[c].rid].status = "waiting"]_vars

\* C33: the status of a room changes only from 'waiting' to 'playing',
\* from 'playing' to 'waiting', and from 'waiting' or 'playing' to closed or
\* deleted (a new row starts 'waiting'); 'launching' is never written, and
\* a room that is closed or deleted stays as it is.
C33_StatusEdges ==
    [][\A r \in RoomIds :
          /\ rooms'[r].status # "launching"
          /\ rooms'[r].status # rooms[r].status
             => \/ r = nextRoomId /\ rooms[r] = NoRoom /\ rooms'[r].status = "waiting"
                \/ rooms[r].status = "waiting" /\ rooms'[r].status \in {"playing", "closed", "none"}
                \/ rooms[r].status = "playing" /\ rooms'[r].status \in {"waiting", "closed", "none"}
          /\ (r < nextRoomId /\ rooms[r].status \in {"none", "closed"})
             => rooms'[r] = rooms[r]]_vars

\* a room is 'waiting' again after a launch: the worker has exited, its
\* monitor is done, no handler is running and the room has no entry
C33_Witness ==
    \E r \in RoomIds : \E l \in Launches :
        /\ rooms[r].status = "waiting"
        /\ active[r] = NoEntry
        /\ proc[l].state = "exited"
        /\ mon[l].pc = "done"
        /\ \A c \in Conns : pc[c] \in {"idle", "closed"}

\* C34: when the LEAVE_ROOM of the owner of a 'waiting' room completes,
\* the room is not open any more, no membership record and no invite of the
\* room is left, and so none of its former members is a member of it.
C34_OwnerLeaveRemovesRoom ==
    [][\A c \in Conns :
          (/\ cleanup_room_delete(c)
           /\ loc[c].ctx = "leave"
           /\ loc[c].room.status = "waiting")
          => /\ resp'.conn = c
             /\ resp'.kind = "ok"
             /\ rooms'[loc[c].rid].status \notin OpenStatus
             /\ \A m \in members' : m[1] # loc[c].rid
             /\ \A i \in invites' : i.room # loc[c].rid]_vars

\* C35: every open room that a request of a connection observes has its
\* owner among its members: whenever JOIN_ROOM reads a room and finds it
\* 'waiting', the membership of the room's owner is recorded.
C35_ObservedRoomHasOwner ==
    [][\A c \in Conns :
          (handle_join_room_read(c) /\ pc'[c] = "join_list")
          => rooms[loc'[c].rid].owner \in MemberList(loc'[c].rid)]_vars

C37_LaunchTokensDistinct ==
    \A l1, l2 \in Launches :
        (l1 # l2 /\ proc[l1].state # "none" /\ proc[l2].state # "none")
        => proc[l1].token # proc[l2].token

\* C38: a request other than LOGIN on a connection without a session is
\* answered 'not authenticated', changes no room, membership, invite or
\* active-launch state and no session, and leaves the connection open: a
\* step of such a connection is a LOGIN, the loss of the connection, or that
\* answer.
C38_NoSessionNoEffect ==
    [][\A c \in Conns :
          (/\ pc[c] = "idle"
           /\ sessions[c] = NoSession
           /\ (pc'[c] # "idle" \/ resp'.conn = c))
          => \/ pc'[c] = "login_check"
             \/ resp'.kind = "invalid credentials"
             \/ pc'[c] = "finally"
             \/ /\ resp'.kind = "not authenticated"
                /\ pc'[c] = "idle"
                /\ UNCHANGED <<sessions, dbVars, active>>]_vars

\* a connection without a session has just been answered 'not authenticated'
\* while an open room and an invite exist
C38_Witness ==
    /\ resp.kind = "not authenticated"
    /\ sessions[resp.conn] = NoSession
    /\ pc[resp.conn] = "idle"
    /\ \E r \in RoomIds : rooms[r].status \in OpenStatus
    /\ invites # {}

\* C39: no thread is about to acquire the shared lock while it holds the
\* lock itself: a connection's thread that holds the lock is at none of the
\* points where its next statement takes the lock.
C39_NoSelfAcquire ==
    \A c \in Conns :
        lock = c => pc[c] \notin {"cr_lock", "login_check", "login_commit",
                                  "lo_clear", "start_record"}

\* C40: in every reachable state each entry of the active-launch table
\* belongs to a room that exists and is open.
C40_EntryHasOpenRoom ==
    \A r \in RoomIds : active[r] # NoEntry => rooms[r].status \in OpenStatus

====
